---- MODULE Spec2Model ----
(***************************************************************************)
(* Model of hindi_tokenizer.py: the resumable, size-capped corpus download *)
(* (download_dataset), the line sampler (prepare_dataset), the text        *)
(* normalizer (preprocess_hindi_text) and the pipeline that chains them    *)
(* (main, calculate_compression_ratio).                                    *)
(*                                                                         *)
(* Text is a sequence of Unicode code points, a file is a sequence of      *)
(* bytes (0..255).  An optional argument (None or an integer) is <<>> for  *)
(* None and <<n>> for the integer n.                                       *)
(***************************************************************************)
EXTENDS Integers, Sequences, FiniteSets, TLC

(***************************************************************************)
(* Bounds of the model.                                                    *)
(***************************************************************************)
\* the size ceiling of main (2 GB in the program), in bytes
MaxSizeBytes == 4
\* the largest chunk iter_content yields (8192 in the program), in bytes
ChunkSize == 2
\* pipeline runs and direct download_dataset calls in one behaviour
MaxRuns == 3
\* length of the texts given to preprocess_hindi_text
MaxTextLen == 4
\* number of lines of the source files given to prepare_dataset
MaxSrcLines == 10
\* largest sample_size / max_lines below the full-file value
MaxLimit == 3

(***************************************************************************)
(* Program constants.                                                      *)
(***************************************************************************)
MainSampleSize == 100000
MainMaxLines == 1000000
\* bytes a text file opened by open() is read and decoded at a time
ReadChunkSize == 8192

(***************************************************************************)
(* Helpers on sequences.                                                   *)
(***************************************************************************)
SetMin(S) == CHOOSE x \in S : \A y \in S : x <= y
SetMax(S) == CHOOSE x \in S : \A y \in S : x >= y
Drop(s, n) == SubSeq(s, n + 1, Len(s))
IsPrefix(p, s) == Len(p) <= Len(s) /\ SubSeq(s, 1, Len(p)) = p
Count(s, c) == Cardinality({i \in 1..Len(s) : s[i] = c})

RECURSIVE Flatten(_)
Flatten(ss) == IF ss = <<>> THEN <<>> ELSE Head(ss) \o Flatten(Tail(ss))

RECURSIVE SumSeq(_)
SumSeq(ns) == IF ns = <<>> THEN 0 ELSE Head(ns) + SumSeq(Tail(ns))

(***************************************************************************)
(* Character classes of the regular expressions and of str.strip().        *)
(***************************************************************************)
\* \s of a str pattern and str.strip(): the characters with str.isspace()
IsSpace(c) ==
    \/ c \in 9..13
    \/ c \in 28..32
    \/ c \in {133, 160, 5760}
    \/ c \in 8192..8202
    \/ c \in {8232, 8233, 8239, 8287, 12288}

\* ऀ-ॿ
IsHindiBlock(c) == c \in 2304..2431
\* the Hindi full stop, U+0964
Danda == 2404
\* the ASCII period
Period == 46
Space == 32
\* , . ! ? -
AsciiPunct == {44, 46, 33, 63, 45}
\* [0-9]
IsAsciiDigit(c) == c \in 48..57
\* U+0966..U+096F
IsHindiDigit(c) == c \in 2406..2415

(***************************************************************************)
(* preprocess_hindi_text, one operator per re.sub.                         *)
(***************************************************************************)
\* line 109: the characters the first substitution keeps
Retained(c) == IsHindiBlock(c) \/ IsSpace(c) \/ c = Danda \/ c \in AsciiPunct

RetainPermitted(text) == SelectSeq(text, Retained)

\* line 111
IsDigit(c) == IsAsciiDigit(c) \/ IsHindiDigit(c)

\* a variant that forgets the Hindi digits
RemoveAsciiDigitsOnly(text) == SelectSeq(text, LAMBDA c : ~IsAsciiDigit(c))

RemoveDigits(text) == SelectSeq(text, LAMBDA c : ~IsDigit(c))

\* line 113
NormalizeFullStops(text) ==
    [i \in 1..Len(text) |-> IF text[i] = Danda THEN Period ELSE text[i]]

\* re.sub(r"\s+", " ", text): every maximal run of whitespace becomes one space
CollapseWhitespace(text) ==
    LET marked == [i \in 1..Len(text) |->
                     IF IsSpace(text[i])
                     THEN IF i > 1 /\ IsSpace(text[i - 1]) THEN -1 ELSE Space
                     ELSE text[i]]
    IN SelectSeq(marked, LAMBDA c : c # -1)

\* str.strip()
Strip(text) ==
    LET solid == {i \in 1..Len(text) : ~IsSpace(text[i])}
    IN IF solid = {} THEN <<>> ELSE SubSeq(text, SetMin(solid), SetMax(solid))

\* line 114
NormalizeWhitespace(text) == Strip(CollapseWhitespace(text))

\* a variant that removes the digits after the whitespace is normalized
preprocess_digits_last(text) ==
    RemoveDigits(NormalizeWhitespace(NormalizeFullStops(RetainPermitted(text))))

preprocess_hindi_text(text) ==
    NormalizeWhitespace(NormalizeFullStops(RemoveDigits(RetainPermitted(text))))

(***************************************************************************)
(* Text files: UTF-8 and universal newlines, as open(..., 'r'/'w',         *)
(* encoding='utf-8') reads and writes them.                                *)
(***************************************************************************)
\* number of bytes of the UTF-8 sequence that starts with byte b, 0 if none
Utf8Width(b) ==
    IF b \in 0..127 THEN 1
    ELSE IF b \in 194..223 THEN 2
    ELSE IF b \in 224..239 THEN 3
    ELSE IF b \in 240..244 THEN 4
    ELSE 0

\* the second byte's range excludes overlong forms, surrogates and > U+10FFFF
Utf8SecondOK(b1, b2) ==
    /\ b2 \in 128..191
    /\ b1 = 224 => b2 >= 160
    /\ b1 = 237 => b2 <= 159
    /\ b1 = 240 => b2 >= 144
    /\ b1 = 244 => b2 <= 143

Utf8SeqOK(bytes, w) ==
    /\ w > 0
    /\ Len(bytes) >= w
    /\ w >= 2 => Utf8SecondOK(bytes[1], bytes[2])
    /\ \A k \in 3..w : bytes[k] \in 128..191

Utf8CodePoint(bytes, w) ==
    IF w = 1 THEN bytes[1]
    ELSE IF w = 2 THEN (bytes[1] - 192) * 64 + (bytes[2] - 128)
    ELSE IF w = 3 THEN (bytes[1] - 224) * 4096 + (bytes[2] - 128) * 64
                       + (bytes[3] - 128)
    ELSE (bytes[1] - 240) * 262144 + (bytes[2] - 128) * 4096
         + (bytes[3] - 128) * 64 + (bytes[4] - 128)

\* the bytes present of a sequence of width w that is cut short can be held:
\* they are valid so far, or are the first two bytes of a surrogate (ED A0..BF),
\* which the decoder rejects only with the next chunk
Utf8TailOK(bytes, w) ==
    /\ w > 0
    /\ Len(bytes) < w
    /\ Len(bytes) >= 2 =>
         \/ Utf8SecondOK(bytes[1], bytes[2])
         \/ (bytes[1] = 237 /\ bytes[2] \in 160..191)
    /\ \A k \in 3..Len(bytes) : bytes[k] \in 128..191

\* the incremental decoder on one chunk: the text of the complete sequences
\* and the held bytes of a sequence cut short by the end of the chunk;
\* ok = FALSE where Python raises UnicodeDecodeError (an invalid sequence, or
\* a sequence cut short by the end of the file)
RECURSIVE Utf8DecodeChunk(_, _)
Utf8DecodeChunk(bytes, final) ==
    IF bytes = <<>> THEN [ok |-> TRUE, text |-> <<>>, held |-> <<>>]
    ELSE LET w == Utf8Width(bytes[1])
         IN IF Utf8TailOK(bytes, w)
            THEN [ok |-> ~final, text |-> <<>>,
                  held |-> IF final THEN <<>> ELSE bytes]
            ELSE IF ~Utf8SeqOK(bytes, w)
            THEN [ok |-> FALSE, text |-> <<>>, held |-> <<>>]
            ELSE LET rest == Utf8DecodeChunk(Drop(bytes, w), final)
                 IN [ok |-> rest.ok,
                     text |-> IF rest.ok
                              THEN <<Utf8CodePoint(bytes, w)>> \o rest.text
                              ELSE <<>>,
                     held |-> rest.held]

\* a whole file decoded at once
Utf8Decode(bytes) ==
    LET d == Utf8DecodeChunk(bytes, TRUE)
    IN [ok |-> d.ok, text |-> d.text]

Utf8EncodeChar(c) ==
    IF c < 128 THEN <<c>>
    ELSE IF c < 2048 THEN <<192 + (c \div 64), 128 + (c % 64)>>
    ELSE IF c < 65536
         THEN <<224 + (c \div 4096), 128 + ((c \div 64) % 64), 128 + (c % 64)>>
    ELSE <<240 + (c \div 262144), 128 + ((c \div 4096) % 64),
           128 + ((c \div 64) % 64), 128 + (c % 64)>>

Utf8Encode(text) == Flatten([i \in 1..Len(text) |-> Utf8EncodeChar(text[i])])

\* newline=None on reading: "\r\n" and "\r" become "\n"
TranslateNewlines(text) ==
    LET marked == [i \in 1..Len(text) |->
                     IF text[i] = 13 THEN 10
                     ELSE IF text[i] = 10 /\ i > 1 /\ text[i - 1] = 13 THEN -1
                     ELSE text[i]]
    IN SelectSeq(marked, LAMBDA c : c # -1)

\* iteration over a text file: each line keeps its "\n"; a last line may lack it
RECURSIVE SplitLines(_)
SplitLines(text) ==
    LET ends == {i \in 1..Len(text) : text[i] = 10}
    IN IF text = <<>> THEN <<>>
       ELSE IF ends = {} THEN <<text>>
       ELSE <<SubSeq(text, 1, SetMin(ends))>>
            \o SplitLines(Drop(text, SetMin(ends)))

\* file.readlines(): the lines of the whole file, or ok = FALSE on a decoding
\* error
ReadTextLines(bytes) ==
    LET d == Utf8Decode(bytes)
    IN [ok |-> d.ok,
        lines |-> IF d.ok THEN SplitLines(TranslateNewlines(d.text)) ELSE <<>>]

(***************************************************************************)
(* Iteration over a text file: the file is read and decoded one chunk at a *)
(* time, and only as far as the line asked for needs.                      *)
(***************************************************************************)
\* rest: bytes not yet read; held: bytes of a sequence cut by a chunk's end;
\* cr: a "\r" that ended a chunk is pending; buf: decoded text not yet
\* returned; eof: the end of the file was read; ok: no decoding error
OpenReader(bytes) ==
    [rest |-> bytes, held |-> <<>>, cr |-> FALSE, buf |-> <<>>,
     eof |-> FALSE, ok |-> TRUE]

\* one chunk is read, decoded and its newlines translated
ReadChunk(r) ==
    LET n == IF Len(r.rest) < ReadChunkSize THEN Len(r.rest) ELSE ReadChunkSize
        final == n = 0
        d == Utf8DecodeChunk(r.held \o SubSeq(r.rest, 1, n), final)
        crUsed == r.cr /\ (d.text # <<>> \/ final)
        withCr == IF crUsed THEN <<13>> \o d.text ELSE d.text
        holdCr == ~final /\ withCr # <<>> /\ withCr[Len(withCr)] = 13
        output == IF holdCr THEN SubSeq(withCr, 1, Len(withCr) - 1) ELSE withCr
    IN IF ~d.ok THEN [r EXCEPT !.ok = FALSE]
       ELSE [rest |-> Drop(r.rest, n),
             held |-> d.held,
             cr |-> holdCr \/ (r.cr /\ ~crUsed),
             buf |-> r.buf \o TranslateNewlines(output),
             eof |-> final,
             ok |-> TRUE]

\* the next line (<<>> at the end of the file): chunks are read until the
\* buffer holds a line end or the file is over
RECURSIVE ReadLine(_)
ReadLine(r) ==
    LET ends == {i \in 1..Len(r.buf) : r.buf[i] = 10}
    IN IF ~r.ok THEN [reader |-> r, line |-> <<>>]
       ELSE IF ends # {}
       THEN [reader |-> [r EXCEPT !.buf = Drop(r.buf, SetMin(ends))],
             line |-> SubSeq(r.buf, 1, SetMin(ends))]
       ELSE IF r.eof THEN [reader |-> [r EXCEPT !.buf = <<>>], line |-> r.buf]
       ELSE ReadLine(ReadChunk(r))

(***************************************************************************)
(* prepare_dataset over the bytes of the file at input_path.               *)
(***************************************************************************)
\* Python truthiness of an optional integer: None and 0 are false
Truthy(opt) == opt # <<>> /\ opt[1] # 0

\* line 88
ScanLimitReached(max_lines, i) == Truthy(max_lines) /\ i >= max_lines[1]

\* line 93
SampleFull(sample_size, n) == Truthy(sample_size) /\ n >= sample_size[1]

\* lines 87-94: the loop at source line i (0-based) with `lines` collected; the
\* line is fetched before line 88 looks at i; ok = FALSE when fetching it
\* raises UnicodeDecodeError
RECURSIVE PrepareLoop(_, _, _, _, _)
PrepareLoop(r, i, lines, sample_size, max_lines) ==
    LET got == ReadLine(r)
    IN IF ~got.reader.ok THEN [ok |-> FALSE, lines |-> <<>>]
       ELSE IF got.line = <<>> THEN [ok |-> TRUE, lines |-> lines]
       ELSE IF ScanLimitReached(max_lines, i) THEN [ok |-> TRUE, lines |-> lines]
       ELSE IF Strip(got.line) # <<>>
            THEN LET more == Append(lines, got.line)
                 IN IF SampleFull(sample_size, Len(more))
                    THEN [ok |-> TRUE, lines |-> more]
                    ELSE PrepareLoop(got.reader, i + 1, more, sample_size,
                                     max_lines)
            ELSE PrepareLoop(got.reader, i + 1, lines, sample_size, max_lines)

\* the list returned, or ok = FALSE when the call raises UnicodeDecodeError
prepare_dataset(bytes, sample_size, max_lines) ==
    PrepareLoop(OpenReader(bytes), 0, <<>>, sample_size, max_lines)

\* "\n".join(lines)
RECURSIVE JoinLines(_)
JoinLines(lines) ==
    IF lines = <<>> THEN <<>>
    ELSE IF Len(lines) = 1 THEN lines[1]
    ELSE lines[1] \o <<10>> \o JoinLines(Tail(lines))

(***************************************************************************)
(* calculate_compression_ratio.  The tokenizer is the external library;    *)
(* what the model keeps of tokenizer.encode(line).tokens is its range: at  *)
(* least one token per whitespace-separated word (the Whitespace           *)
(* pre-tokenizer never joins across whitespace) and at most one token per  *)
(* non-whitespace character.                                               *)
(***************************************************************************)
WordCount(line) ==
    Cardinality({i \in 1..Len(line) :
                    /\ ~IsSpace(line[i])
                    /\ (i = 1 \/ IsSpace(line[i - 1]))})

SolidCount(line) == Cardinality({i \in 1..Len(line) : ~IsSpace(line[i])})

\* line 131
TotalChars(corpus) == SumSeq([i \in 1..Len(corpus) |-> Len(corpus[i])])

MinTokens(corpus) == SumSeq([i \in 1..Len(corpus) |-> WordCount(corpus[i])])
MaxTokens(corpus) == SumSeq([i \in 1..Len(corpus) |-> SolidCount(corpus[i])])

\* line 133 raises ZeroDivisionError
DivisionFails(total_tokens) == total_tokens = 0

\* line 263: compression_ratio < 3.2, for total_tokens > 0
BelowThreshold(total_chars, total_tokens) == total_chars * 10 < 32 * total_tokens

(***************************************************************************)
(* download_dataset: the decisions of the code, and the HTTP server.       *)
(***************************************************************************)
\* a variant that asks for more than the ceiling
HaveEnoughStrict(file_exists, size, max_size_bytes) ==
    file_exists /\ size > max_size_bytes

\* line 22
HaveEnough(file_exists, size, max_size_bytes) ==
    file_exists /\ size >= max_size_bytes

\* line 29
CurrentSize(file_exists, size) == IF file_exists THEN size ELSE 0

\* a variant that never sends a Range header
RangeHeaderNone(current_size) == <<>>

\* line 32: the Range header's start offset, <<>> when no header is sent
RangeHeader(current_size) ==
    IF current_size > 0 THEN <<current_size>> ELSE <<>>

\* a variant that always opens the file for writing from scratch
OpenModeTruncating(current_size) == "wb"

\* line 44
OpenMode(current_size) == IF current_size > 0 THEN "ab" ELSE "wb"

\* line 45: what open(filepath, mode) leaves in the file
Opened(content, mode) == IF mode = "wb" THEN <<>> ELSE content

\* line 61
LimitReached(position, max_size_bytes) == position >= max_size_bytes

\* line 36: a range that starts at or past the end is answered 416
StatusFails(resource, headers, honours) ==
    headers # <<>> /\ honours /\ headers[1] >= Len(resource)

\* the Content-Length header of a response: absent, a number, or anything else
ContentLengths == {"absent", "number", "other"}

\* lines 39-42: int() of a header that is no number raises ValueError
TotalSizeFails(content_length) == content_length = "other"

\* line 35: the body of the response
ResponseBody(resource, headers, honours) ==
    IF headers # <<>> /\ honours THEN Drop(resource, headers[1]) ELSE resource

\* a variant that gives up after every failed download
AbortAfterErrorAlways(file_exists) == TRUE

\* lines 204-205: after a failed download main gives up only without a file
AbortAfterError(file_exists) == ~file_exists

(***************************************************************************)
(* Inputs of the model.                                                    *)
(***************************************************************************)
\* remote resources: "", "\n", "a\na", U+0915, "....\n" U+0915 "\n-a"
RemoteSet ==
    { <<>>,
      <<10>>,
      <<97, 10, 97>>,
      <<224, 164, 149>>,
      <<46, 46, 46, 46, 10, 224, 164, 149, 10, 45, 97>> }

\* contents of a destination file that is there before the first call
InitFiles == UNION {{SubSeq(r, 1, n) : n \in 0..Len(r)} : r \in RemoteSet}

\* characters of the texts given to preprocess_hindi_text:
\* U+0915, U+0967, U+0964, space, tab, "1", "a", ".", U+3000
NormChars == {2325, 2407, 2404, 32, 9, 49, 97, 46, 12288}

Texts == UNION {[1..n -> NormChars] : n \in 0..MaxTextLen}

\* source line i of a file given to prepare_dataset: blank, or a word of its own
BlankLine(i) == IF i % 2 = 1 THEN <<10>> ELSE <<32, 10>>
WordLine(i) == <<2324 + i, 10>>

SrcFiles ==
    {[i \in 1..n |-> IF i \in blanks THEN BlankLine(i) ELSE WordLine(i)] :
        n \in 0..MaxSrcLines, blanks \in SUBSET (1..MaxSrcLines)}

\* what follows the lines in the file: nothing, or a line that is not UTF-8
SrcTails == {<<>>, <<255, 10>>}

\* the bytes of the file
SrcBytes(lines, tail) == Utf8Encode(Flatten(lines)) \o tail

\* values of sample_size and max_lines: None, -1 .. MaxLimit, the file's length
Limits == {<<>>} \cup {<<n>> : n \in (-1)..MaxLimit} \cup {<<MaxSrcLines>>}

(***************************************************************************)
(* State.                                                                  *)
(***************************************************************************)
VARIABLES
    pc,             \* position of the program
    file,           \* bytes of raw_hindi_dataset.txt (<<>> when absent)
    exists,         \* whether raw_hindi_dataset.txt exists
    remote,         \* the bytes the URL serves
    rangeOK,        \* whether the server honours Range headers
    caller,         \* "main", or "direct" for a call of download_dataset alone
    ceiling,        \* max_size_bytes of the current download_dataset call
    body,           \* response body not yet yielded by iter_content
    requestsIssued, \* HTTP requests of the current run or call
    fileAtCall,     \* file when download_dataset was called
    existedAtCall,  \* exists when download_dataset was called
    dlRaised,       \* download_dataset raised RequestException in this run
    stages,         \* stages after the fetch that this run has entered
    rawData,        \* raw_data of main
    preprocessed,   \* bytes of output/preprocessed_hindi.txt
    verdict,        \* "success", "warning" or "none"
    runs,           \* runs and calls started so far
    text,           \* argument of preprocess_hindi_text
    out,            \* its result
    out2,           \* the result of applying it to out
    srcLines,       \* lines of the file given to prepare_dataset
    srcTail,        \* bytes of the file after those lines
    sampleSize,     \* sample_size
    maxLines,       \* max_lines
    sampled         \* the list prepare_dataset returns

dlVars == <<ceiling, body, requestsIssued, fileAtCall, existedAtCall, dlRaised>>
runVars == <<stages, rawData, preprocessed, verdict>>
envVars == <<remote, rangeOK>>
normVars == <<text, out, out2>>
sampVars == <<srcLines, srcTail, sampleSize, maxLines, sampled>>
vars == <<pc, file, exists, caller, runs, dlVars, runVars, envVars, normVars,
          sampVars>>

PipelineIdle ==
    /\ caller = "none"
    /\ ceiling = 0
    /\ body = <<>>
    /\ requestsIssued = 0
    /\ fileAtCall = <<>>
    /\ existedAtCall = FALSE
    /\ dlRaised = FALSE
    /\ stages = {}
    /\ rawData = <<>>
    /\ verdict = "none"

\* the per-run state is cleared
ResetPipeline ==
    /\ caller' = "none"
    /\ ceiling' = 0
    /\ body' = <<>>
    /\ requestsIssued' = 0
    /\ fileAtCall' = <<>>
    /\ existedAtCall' = FALSE
    /\ dlRaised' = FALSE
    /\ stages' = {}
    /\ rawData' = <<>>
    /\ verdict' = "none"

NormIdle == text = <<>> /\ out = <<>> /\ out2 = <<>>
SampIdle ==
    /\ srcLines = <<>>
    /\ srcTail = <<>>
    /\ sampleSize = <<>>
    /\ maxLines = <<>>
    /\ sampled = <<>>

Init ==
    /\ pc = "idle"
    /\ remote \in RemoteSet
    /\ rangeOK \in BOOLEAN
    /\ exists \in BOOLEAN
    /\ file \in (IF exists THEN InitFiles ELSE {<<>>})
    /\ preprocessed = <<>>
    /\ runs = 0
    /\ PipelineIdle
    /\ NormIdle
    /\ SampIdle

(***************************************************************************)
(* main, lines 197-208: step 1.                                            *)
(***************************************************************************)
MainStart ==
    /\ pc = "idle"
    /\ runs < MaxRuns
    /\ runs' = runs + 1
    /\ caller' = "main"
    /\ IF ~exists \/ Len(file) < MaxSizeBytes
       THEN /\ pc' = "download"
            /\ ceiling' = MaxSizeBytes
            /\ fileAtCall' = file
            /\ existedAtCall' = exists
       ELSE /\ pc' = "prepare"
            /\ UNCHANGED <<ceiling, fileAtCall, existedAtCall>>
    /\ UNCHANGED <<file, exists, body, requestsIssued, dlRaised, runVars,
                   envVars, normVars, sampVars>>

\* download_dataset(url, filepath, max_size_gb) called on its own
DirectCall ==
    /\ pc = "idle"
    /\ runs < MaxRuns
    /\ runs' = runs + 1
    /\ caller' = "direct"
    /\ pc' = "download"
    /\ \E max_size_bytes \in 1..MaxSizeBytes : ceiling' = max_size_bytes
    /\ fileAtCall' = file
    /\ existedAtCall' = exists
    /\ UNCHANGED <<file, exists, body, requestsIssued, dlRaised, runVars,
                   envVars, normVars, sampVars>>

(***************************************************************************)
(* download_dataset.                                                       *)
(***************************************************************************)
\* lines 19-45: the early return, or the request, the total size for the
\* progress bar and the opening of the file; a ValueError of line 40 is no
\* RequestException and leaves download_dataset uncaught
DlEnter ==
    /\ pc = "download"
    /\ IF HaveEnough(exists, Len(file), ceiling)
       THEN /\ pc' = "dl_returned"
            /\ UNCHANGED <<file, exists, body, requestsIssued, dlRaised>>
       ELSE LET current_size == CurrentSize(exists, Len(file))
                headers == RangeHeader(current_size)
            IN /\ requestsIssued' = requestsIssued + 1
               /\ \E connected \in BOOLEAN, content_length \in ContentLengths :
                    IF ~connected \/ StatusFails(remote, headers, rangeOK)
                    THEN /\ pc' = "dl_raised"
                         /\ dlRaised' = TRUE
                         /\ UNCHANGED <<file, exists, body>>
                    ELSE IF TotalSizeFails(content_length)
                    THEN /\ pc' = "dl_crashed"
                         /\ UNCHANGED <<file, exists, body, dlRaised>>
                    ELSE /\ pc' = "streaming"
                         /\ body' = ResponseBody(remote, headers, rangeOK)
                         /\ file' = Opened(file, OpenMode(current_size))
                         /\ exists' = TRUE
                         /\ UNCHANGED dlRaised
    /\ UNCHANGED <<caller, runs, ceiling, fileAtCall, existedAtCall, runVars,
                   envVars, normVars, sampVars>>

\* lines 53-63: one chunk is written, then the limit is checked
DlWriteChunk ==
    /\ pc = "streaming"
    /\ body # <<>>
    /\ \E n \in 1..ChunkSize :
         /\ n <= Len(body)
         /\ file' = file \o SubSeq(body, 1, n)
         /\ body' = Drop(body, n)
    /\ pc' = IF LimitReached(Len(file'), ceiling) THEN "dl_returned"
             ELSE "streaming"
    /\ UNCHANGED <<exists, caller, runs, ceiling, requestsIssued, fileAtCall,
                   existedAtCall, dlRaised, runVars, envVars, normVars,
                   sampVars>>

\* lines 53-55: the body is exhausted
DlBodyEnd ==
    /\ pc = "streaming"
    /\ body = <<>>
    /\ pc' = "dl_returned"
    /\ UNCHANGED <<file, exists, caller, runs, dlVars, runVars, envVars,
                   normVars, sampVars>>

\* lines 65-69: iter_content raises, the file is closed and stays
DlTransportFailure ==
    /\ pc = "streaming"
    /\ pc' = "dl_raised"
    /\ dlRaised' = TRUE
    /\ body' = <<>>
    /\ UNCHANGED <<file, exists, caller, runs, ceiling, requestsIssued,
                   fileAtCall, existedAtCall, runVars, envVars, normVars,
                   sampVars>>

\* a direct call is over, by return or by exception
DirectReturn ==
    /\ pc \in {"dl_returned", "dl_raised", "dl_crashed"}
    /\ caller = "direct"
    /\ pc' = "idle"
    /\ ResetPipeline
    /\ UNCHANGED <<file, exists, runs, preprocessed, envVars, normVars,
                   sampVars>>

(***************************************************************************)
(* main after step 1.                                                      *)
(***************************************************************************)
\* line 201 returned
MainDownloadOk ==
    /\ pc = "dl_returned"
    /\ caller = "main"
    /\ pc' = "prepare"
    /\ UNCHANGED <<file, exists, caller, runs, dlVars, runVars, envVars,
                   normVars, sampVars>>

\* lines 202-206
MainDownloadError ==
    /\ pc = "dl_raised"
    /\ caller = "main"
    /\ pc' = IF AbortAfterError(exists) THEN "aborted" ELSE "prepare"
    /\ UNCHANGED <<file, exists, caller, runs, dlVars, runVars, envVars,
                   normVars, sampVars>>

\* lines 200-202: an exception that is no RequestException is not caught
MainDownloadCrash ==
    /\ pc = "dl_crashed"
    /\ caller = "main"
    /\ pc' = "crashed"
    /\ UNCHANGED <<file, exists, caller, runs, dlVars, runVars, envVars,
                   normVars, sampVars>>

\* lines 211-224: step 2, prepare_dataset inside try/except
MainPrepare ==
    /\ pc = "prepare"
    /\ stages' = stages \cup {"sample"}
    /\ LET result == prepare_dataset(file, <<MainSampleSize>>, <<MainMaxLines>>)
       IN IF ~exists \/ ~result.ok
          THEN /\ pc' = "aborted"
               /\ UNCHANGED rawData
          ELSE /\ pc' = "preprocess"
               /\ rawData' = result.lines
    /\ UNCHANGED <<file, exists, caller, runs, dlVars, preprocessed, verdict,
                   envVars, normVars, sampVars>>

\* lines 226-232
MainPreprocess ==
    /\ pc = "preprocess"
    /\ stages' = stages \cup {"normalize"}
    /\ LET preprocessed_data ==
               [i \in 1..Len(rawData) |-> preprocess_hindi_text(rawData[i])]
       IN preprocessed' = Utf8Encode(JoinLines(preprocessed_data))
    /\ pc' = "train"
    /\ UNCHANGED <<file, exists, caller, runs, dlVars, rawData, verdict,
                   envVars, normVars, sampVars>>

\* lines 234-255: steps 3 and 4, done by the tokenizer library
MainTrain ==
    /\ pc = "train"
    /\ stages' = stages \cup {"train", "persist"}
    /\ pc' = "evaluate"
    /\ UNCHANGED <<file, exists, caller, runs, dlVars, rawData, preprocessed,
                   verdict, envVars, normVars, sampVars>>

\* lines 257-273 and 128-133: step 5, the verdict, and the smoke test
MainEvaluate ==
    /\ pc = "evaluate"
    /\ stages' = stages \cup {"evaluate"}
    /\ LET corpus == ReadTextLines(preprocessed).lines
           total_chars == TotalChars(corpus)
       IN \E total_tokens \in MinTokens(corpus)..MaxTokens(corpus) :
            IF DivisionFails(total_tokens)
            THEN /\ pc' = "crashed"
                 /\ UNCHANGED verdict
            ELSE /\ pc' = "done"
                 /\ verdict' = IF BelowThreshold(total_chars, total_tokens)
                               THEN "warning" ELSE "success"
    /\ UNCHANGED <<file, exists, caller, runs, dlVars, rawData, preprocessed,
                   envVars, normVars, sampVars>>

\* the process is over; the files stay for the next invocation
ProcessExit ==
    /\ pc \in {"done", "aborted", "crashed"}
    /\ pc' = "idle"
    /\ ResetPipeline
    /\ UNCHANGED <<file, exists, runs, preprocessed, envVars, normVars,
                   sampVars>>

Next ==
    \/ MainStart
    \/ DirectCall
    \/ DlEnter
    \/ DlWriteChunk
    \/ DlBodyEnd
    \/ DlTransportFailure
    \/ DirectReturn
    \/ MainDownloadOk
    \/ MainDownloadError
    \/ MainDownloadCrash
    \/ MainPrepare
    \/ MainPreprocess
    \/ MainTrain
    \/ MainEvaluate
    \/ ProcessExit

Spec == Init /\ [][Next]_vars

(***************************************************************************)
(* preprocess_hindi_text on its own: applied to a text, then to its result.*)
(***************************************************************************)
NoPipeline ==
    /\ remote = <<>>
    /\ rangeOK = TRUE
    /\ exists = FALSE
    /\ file = <<>>
    /\ preprocessed = <<>>
    /\ runs = 0
    /\ PipelineIdle

pipelineVars == <<file, exists, caller, runs, dlVars, runVars, envVars>>

InitNormalizer ==
    /\ pc = "text_given"
    /\ text \in Texts
    /\ out = <<>>
    /\ out2 = <<>>
    /\ NoPipeline
    /\ SampIdle

Normalize ==
    /\ pc = "text_given"
    /\ out' = preprocess_hindi_text(text)
    /\ pc' = "normalized"
    /\ UNCHANGED <<text, out2, pipelineVars, sampVars>>

NormalizeAgain ==
    /\ pc = "normalized"
    /\ out2' = preprocess_hindi_text(out)
    /\ pc' = "renormalized"
    /\ UNCHANGED <<text, out, pipelineVars, sampVars>>

NextNormalizer == Normalize \/ NormalizeAgain

SpecNormalizer == InitNormalizer /\ [][NextNormalizer]_vars

(***************************************************************************)
(* prepare_dataset on its own.                                             *)
(***************************************************************************)
InitSampler ==
    /\ pc = "file_given"
    /\ srcLines \in SrcFiles
    /\ srcTail \in SrcTails
    /\ sampleSize \in Limits
    /\ maxLines \in Limits
    /\ sampled = <<>>
    /\ NoPipeline
    /\ NormIdle

Sample ==
    /\ pc = "file_given"
    /\ LET result == prepare_dataset(SrcBytes(srcLines, srcTail), sampleSize,
                                     maxLines)
       IN IF result.ok
          THEN /\ pc' = "sampled"
               /\ sampled' = result.lines
          ELSE /\ pc' = "sample_raised"
               /\ UNCHANGED sampled
    /\ UNCHANGED <<srcLines, srcTail, sampleSize, maxLines, pipelineVars,
                   normVars>>

NextSampler == Sample

SpecSampler == InitSampler /\ [][NextSampler]_vars

(***************************************************************************)
(* Properties of download_dataset and main, under Spec.                    *)
(***************************************************************************)
InDownload ==
    pc \in {"download", "streaming", "dl_returned", "dl_raised", "dl_crashed"}
DownloadOver == pc \in {"dl_returned", "dl_raised", "dl_crashed"}

\* C1: when download_dataset is over after a call on a file smaller than the
\* ceiling (or absent), the file is no larger than the ceiling.
C1_SizeWithinCeiling ==
    (DownloadOver /\ CurrentSize(existedAtCall, Len(fileAtCall)) < ceiling)
        => Len(file) <= ceiling

\* C2: the raw corpus file is append-only: no step of any run or call, whether
\* it returns, stops at the ceiling or fails, removes the file or changes
\* or drops a byte that was on disk.
C2_AppendOnly == [][IsPrefix(file, file') /\ (exists => exists')]_vars

\* a resumed call on a file with content of its own has appended to it and
\* was then aborted by a transport failure
C2_Witness ==
    /\ pc = "dl_raised"
    /\ existedAtCall
    /\ Len(fileAtCall) > 0
    /\ Len(file) > Len(fileAtCall)
    /\ ~IsPrefix(fileAtCall, remote)

\* C3: a call of download_dataset on an existing file of size >= the ceiling
\* returns without an HTTP request and leaves the file as it was.
C3_SkipWhenEnough ==
    (InDownload /\ existedAtCall /\ Len(fileAtCall) >= ceiling)
        => /\ pc \in {"download", "dl_returned"}
           /\ requestsIssued = 0
           /\ exists
           /\ file = fileAtCall

C3_Witness ==
    /\ pc = "dl_returned"
    /\ existedAtCall
    /\ Len(fileAtCall) >= ceiling

\* C4, as claimed: after a transport failure in the fetch stage of a run, no
\* later stage of that run is executed.
C4_FailureAbortsRun == (caller = "main" /\ dlRaised) => stages = {}

\* C4, amended: after a transport failure in the fetch stage of a run there is
\* no retry.  Without a raw corpus file the run is aborted before any later
\* stage.  With a (partial) file the sampling stage is executed on that file:
\* the run is aborted there, with no later stage executed, exactly when
\* sampling raises (the file does not decode), and otherwise the lines sampled
\* from the partial file go through normalizing, training, persisting and
\* evaluation in that order.
C4_FailureAbortsOnlyWithoutFile ==
    (caller = "main" /\ dlRaised)
        => LET result == prepare_dataset(file, <<MainSampleSize>>,
                                         <<MainMaxLines>>)
               sampledFromFile == result.ok /\ rawData = result.lines
               normalized ==
                   preprocessed =
                       Utf8Encode(JoinLines(
                           [i \in 1..Len(rawData) |->
                               preprocess_hindi_text(rawData[i])]))
           IN /\ requestsIssued = 1
              /\ ~exists => (stages = {} /\ pc \in {"dl_raised", "aborted"})
              /\ exists =>
                   \/ pc \in {"dl_raised", "prepare"} /\ stages = {}
                   \/ /\ pc = "aborted"
                      /\ stages = {"sample"}
                      /\ ~result.ok
                   \/ /\ pc = "preprocess"
                      /\ stages = {"sample"}
                      /\ sampledFromFile
                   \/ /\ pc = "train"
                      /\ stages = {"sample", "normalize"}
                      /\ sampledFromFile
                      /\ normalized
                   \/ /\ pc = "evaluate"
                      /\ stages = {"sample", "normalize", "train", "persist"}
                      /\ sampledFromFile
                      /\ normalized
                   \/ /\ pc \in {"done", "crashed"}
                      /\ stages = {"sample", "normalize", "train", "persist",
                                   "evaluate"}
                      /\ sampledFromFile
                      /\ normalized

\* a run whose download failed has gone on to the end with the partial file
C4_Witness ==
    /\ caller = "main"
    /\ dlRaised
    /\ Len(file) > 0
    /\ "evaluate" \in stages

\* C5: no run ends with an unhandled exception.
C5_NoUnhandledException == pc # "crashed"

\* C10: with a server that honours Range, a file that is a prefix of the
\* remote resource stays one through every step of every call: the response
\* body starts at the file's size, so file and remaining body make up the
\* resource, and what is appended continues the prefix.
C10_PrefixOfRemote ==
    [][(rangeOK /\ IsPrefix(file, remote))
          => /\ IsPrefix(file', remote)
             /\ pc' = "streaming" => file' \o body' = remote]_vars

\* a call resumed at a non-zero offset has appended and was then interrupted
C10_Witness ==
    /\ rangeOK
    /\ pc = "dl_raised"
    /\ runs = 2
    /\ existedAtCall
    /\ Len(fileAtCall) > 0
    /\ Len(file) > Len(fileAtCall)
    /\ Len(file) < Len(remote)
    /\ IsPrefix(file, remote)

(***************************************************************************)
(* Properties of prepare_dataset, under SpecSampler.                       *)
(***************************************************************************)
NonBlank(line) == Strip(line) # <<>>

\* whether the lines of `part` occur in `whole` in the same order
RECURSIVE IsSubsequence(_, _)
IsSubsequence(part, whole) ==
    IF part = <<>> THEN TRUE
    ELSE IF whole = <<>> THEN FALSE
    ELSE IF Head(part) = Head(whole)
         THEN IsSubsequence(Tail(part), Tail(whole))
         ELSE IsSubsequence(part, Tail(whole))

\* the first n lines of the source
FirstLines(src, n) ==
    IF n <= 0 THEN <<>> ELSE IF n >= Len(src) THEN src ELSE SubSeq(src, 1, n)

\* C6: with a sample_size given, prepare_dataset returns at most sample_size
\* lines; with sample_size=3 and max_lines=10 over a 10-line file with 2 blank
\* lines it returns the first 3 non-blank lines.
C6_AtMostSampleSize ==
    pc = "sampled" =>
        /\ sampleSize # <<>> => Len(sampled) <= sampleSize[1]
        /\ ( /\ sampleSize = <<3>>
             /\ maxLines = <<10>>
             /\ Len(srcLines) = 10
             /\ Len(SelectSeq(srcLines, NonBlank)) = 8 )
           => sampled = SubSeq(SelectSeq(srcLines, NonBlank), 1, 3)

\* C7: with a max_lines given, the returned lines are non-blank lines among the
\* first max_lines lines of the source, in source order.
C7_WithinMaxLines ==
    (pc = "sampled" /\ maxLines # <<>>)
        => /\ \A i \in 1..Len(sampled) : NonBlank(sampled[i])
           /\ IsSubsequence(sampled, FirstLines(srcLines, maxLines[1]))

(***************************************************************************)
(* Properties of preprocess_hindi_text, under SpecNormalizer.              *)
(***************************************************************************)
\* C8: normalizing a normalized text returns it unchanged.
C8_Idempotent == pc = "renormalized" => out2 = out

\* a text that the first normalization changed, to something non-empty
C8_Witness == pc = "renormalized" /\ out # text /\ out # <<>>

\* C9: the output holds only Hindi-block characters, whitespace and , . ! ? -
\* and the Hindi full stop; no ASCII or Hindi digit; and every Hindi full stop
\* of the input has become a period.
C9_OnlyPermitted ==
    pc \in {"normalized", "renormalized"} =>
        /\ \A i \in 1..Len(out) :
             /\ \/ out[i] \in 2304..2431
                \/ IsSpace(out[i])
                \/ out[i] \in {44, 46, 33, 63, 45, 2404}
             /\ out[i] \notin 48..57
             /\ out[i] \notin 2406..2415
             /\ out[i] # 2404
        /\ Count(out, 46) = Count(text, 46) + Count(text, 2404)

\* a text with a Hindi digit, a Hindi full stop and a letter has been normalized
C9_Witness ==
    /\ pc = "normalized"
    /\ Count(text, 2407) > 0
    /\ Count(text, 2404) > 0
    /\ Count(out, 2325) > 0

====
